---------------------------- MODULE Spec2Model ----------------------------
(***************************************************************************)
(* Model of gonum's stat/spatial package: the GetisOrd and Moran engines,  *)
(* their constructors, mutators (Reset, SetData, SetLocality) and queries  *)
(* (Len, Gstar, I, E, Var, Z) and the stateless GlobalMoransI.             *)
(*                                                                         *)
(* The sources hold three revisions of spatial.go.  The model takes each   *)
(* operation from the revision that defines it most generally:             *)
(*   NewGetisOrd, GlobalMoransI   src/unnamed/part_001 (weights argument)  *)
(*   Reset (nil means "keep")      src/unnamed/part_002                    *)
(*   SetData, SetLocality          src/stat/spatial/spatial.go             *)
(*   NewMoran, Len, Gstar, I, E, Var, Z   src/stat/spatial/spatial.go      *)
(*                                                                         *)
(* float64 values are modelled as exact rationals extended with NaN and    *)
(* the two infinities (IEEE division by zero); sqrt is kept symbolic.      *)
(* Go indices 0..n-1 are TLA+ indices 1..n.                                *)
(***************************************************************************)
EXTENDS Integers, Sequences, FiniteSets, TLC

VARIABLES eng, heap, call

vars == <<eng, heap, call>>

(***************************************************************************)
(* Bounds of the model.                                                    *)
(***************************************************************************)
\* Largest length of an enumerated data slice and largest dimension of an
\* enumerated locality matrix (the example inputs of the sources come on top).
MaxN == 2

(***************************************************************************)
(* float64: [k, n, d] with k = "fin" for the rational n/d in lowest terms  *)
(* (d > 0), or for a zero of sign d (n = 0, d = 1 or -1); k = "inf" for    *)
(* the infinity of sign n; k = "nan" for NaN.  The operations follow IEEE  *)
(* 754 for signed zeros, infinities and NaN and are exact otherwise.       *)
(***************************************************************************)
RECURSIVE GCD(_, _)
GCD(a, b) == IF b = 0 THEN a ELSE GCD(b, a % b)

Abs(x) == IF x < 0 THEN -x ELSE x

Sgn(x) == IF x < 0 THEN -1 ELSE IF x > 0 THEN 1 ELSE 0

NaN == [k |-> "nan", n |-> 0, d |-> 0]

Inf(s) == [k |-> "inf", n |-> s, d |-> 0]

\* The zero of sign s.
SZero(s) == [k |-> "fin", n |-> 0, d |-> s]

\* The rational p/q, q # 0, in lowest terms (a positive zero for p = 0).
Rat(p, q) ==
    LET g == GCD(Abs(p), Abs(q))
        s == IF q < 0 THEN -1 ELSE 1
    IN  [k |-> "fin", n |-> s * (p \div g), d |-> s * (q \div g)]

\* float64(i) of an int i.
Float(i) == [k |-> "fin", n |-> i, d |-> 1]

Zero == Float(0)

IsZero(x) == x.k = "fin" /\ x.n = 0

\* Sign bit of a value that is not NaN, as 1 or -1.
SignOf(x) == IF IsZero(x) THEN x.d ELSE Sgn(x.n)

Neg(x) ==
    CASE x.k = "nan" -> NaN
      [] IsZero(x)   -> SZero(-x.d)
      [] OTHER       -> [x EXCEPT !.n = -x.n]

FAdd(x, y) ==
    CASE x.k = "nan" \/ y.k = "nan" -> NaN
      [] x.k = "inf" /\ y.k = "inf" -> IF x.n = y.n THEN x ELSE NaN
      [] x.k = "inf" -> x
      [] y.k = "inf" -> y
      [] IsZero(x) /\ IsZero(y) -> SZero(IF x.d = -1 /\ y.d = -1 THEN -1 ELSE 1)
      [] IsZero(y) -> x
      [] IsZero(x) -> y
      [] OTHER ->
           LET g == GCD(x.d, y.d)
           IN  Rat(x.n * (y.d \div g) + y.n * (x.d \div g), (x.d \div g) * y.d)

FSub(x, y) == FAdd(x, Neg(y))

FMul(x, y) ==
    CASE x.k = "nan" \/ y.k = "nan" -> NaN
      [] x.k = "inf" \/ y.k = "inf" ->
           IF IsZero(x) \/ IsZero(y) THEN NaN ELSE Inf(SignOf(x) * SignOf(y))
      [] IsZero(x) \/ IsZero(y) -> SZero(SignOf(x) * SignOf(y))
      [] OTHER ->
           LET g1 == GCD(Abs(x.n), y.d)
               g2 == GCD(Abs(y.n), x.d)
           IN  Rat((x.n \div g1) * (y.n \div g2), (x.d \div g2) * (y.d \div g1))

FDiv(x, y) ==
    CASE x.k = "nan" \/ y.k = "nan" -> NaN
      [] x.k = "inf" /\ y.k = "inf" -> NaN
      [] x.k = "inf" -> Inf(SignOf(x) * SignOf(y))
      [] y.k = "inf" -> SZero(SignOf(x) * SignOf(y))
      [] IsZero(y) -> IF IsZero(x) THEN NaN ELSE Inf(SignOf(x) * SignOf(y))
      [] IsZero(x) -> SZero(SignOf(x) * SignOf(y))
      [] OTHER -> FMul(x, Rat(y.d, y.n))

RECURSIVE FSumRange(_, _, _)
\* f[lo] + ... + f[hi], lo <= hi, associated as a balanced tree.
FSumRange(f, lo, hi) ==
    IF lo = hi THEN f[lo]
    ELSE LET mid == (lo + hi) \div 2
         IN  FAdd(FSumRange(f, lo, mid), FSumRange(f, mid + 1, hi))

\* The accumulation acc += f[1]; ...; acc += f[n] from a zero accumulator.
\* The arithmetic above is associative, so the terms are summed as a tree
\* (which bounds the depth of the evaluation) and added to the initial +0.
FSumTo(f, n) == IF n = 0 THEN Zero ELSE FAdd(Zero, FSumRange(f, 1, n))

\* math.Sqrt is kept symbolic: equal arguments give equal roots.
FSqrt(x) == [k |-> "sqrt", of |-> x]

\* A quotient or product with a symbolic operand stays symbolic.
SymDiv(x, y) == [k |-> "div", x |-> x, y |-> y]

SymMul(x, y) == [k |-> "mul", x |-> x, y |-> y]

(***************************************************************************)
(* The matrix and statistics substrate (gonum mat64/mat, stat, not part of *)
(* the sources): a matrix is [r, c, a] with a the sequence of its r rows,  *)
(* a slice or Vector is the sequence of its elements.  Elements are        *)
(* float64 values holding integers.                                        *)
(***************************************************************************)
Min(x, y) == IF x < y THEN x ELSE y

\* mat64.DenseCopyOf(a): a new Dense holding a's elements.
DenseCopyOf(m) ==
    [r |-> m.r, c |-> m.c, a |-> [i \in 1..m.r |-> [j \in 1..m.c |-> m.a[i][j]]]]

\* dst.Copy(src): copies the common top-left block, dst keeps its shape.
DenseCopy(dst, src) ==
    [r |-> dst.r, c |-> dst.c,
     a |-> [i \in 1..dst.r |-> [j \in 1..dst.c |->
               IF i <= Min(dst.r, src.r) /\ j <= Min(dst.c, src.c)
               THEN src.a[i][j] ELSE dst.a[i][j]]]]

\* m.Reset() followed by m.Grow(r, c): a zeroed r x c matrix.
ResetGrow(r, c) ==
    [r |-> r, c |-> c, a |-> [i \in 1..r |-> [j \in 1..c |-> 0]]]

\* The builtin copy(dst, src): min(len) elements, dst keeps its length.
CopySlice(dst, src) ==
    [i \in 1..Len(dst) |-> IF i <= Len(src) THEN src[i] ELSE dst[i]]

RECURSIVE SumTo(_, _)
\* x[1] + ... + x[n] of integer-valued elements.
SumTo(x, n) == IF n = 0 THEN 0 ELSE SumTo(x, n - 1) + x[n]

\* floats.Sum / mat64.Sum of a vector.
SumVec(x) == Float(SumTo(x, Len(x)))

RECURSIVE SumRows(_, _)
SumRows(m, i) == IF i = 0 THEN 0 ELSE SumRows(m, i - 1) + SumTo(m.a[i], m.c)

\* mat64.Sum of a matrix.
SumMat(m) == Float(SumRows(m, m.r))

RECURSIVE DotTo(_, _, _)
DotTo(x, y, n) == IF n = 0 THEN 0 ELSE DotTo(x, y, n - 1) + x[n] * y[n]

\* mat64.Dot(x, y).
Dot(x, y) == Float(DotTo(x, y, Len(x)))

\* stat.Mean(x, nil): sum(x)/len(x), which is 0/0 = NaN for an empty x.
Mean(x) == FDiv(SumVec(x), Float(Len(x)))

(***************************************************************************)
(* Storage.  heap maps an address to the backing store it names: "cd" and  *)
(* "cm" are the caller's data slice and locality matrix (the arguments of  *)
(* the latest call), "ed" and "el" are the stores the engine allocated.    *)
(* An argument is a reference, "nil" or an address; the engine's data and  *)
(* locality fields are references too.                                     *)
(***************************************************************************)
Nil == "nil"

Empty0x0 == ResetGrow(0, 0)

\* The elements of a slice argument; a nil slice has none.
Slice(h, ref) == IF ref = Nil THEN <<>> ELSE h[ref]

NoEngine == [kind |-> "none", data |-> Nil, locality |-> Nil, mean |-> Zero, s |-> Zero]

\* What a call did: err is "" when it returned, else the panic's message;
\* meanLen is the length of the slice stat.Mean was applied to, -1 if it
\* was not called.
Panics(msg, e, h) == [err |-> msg, eng |-> e, heap |-> h, meanLen |-> -1]

Returns(e, h, ml) == [err |-> "", eng |-> e, heap |-> h, meanLen |-> ml]

Mismatch == "spatial: data length mismatch"

NotImplemented == "spatial: weighted data not yet implemented"

\* Mutant: the weights test is forgotten.
WeightedNever(weights) == FALSE

\* weights != nil, the test that guards the unweighted implementations.
Weighted(weights) == ~weights.nil

\* Mutant: && for ||, which lets a matrix through when one side matches.
DimsMismatchBoth(r, c, n) == r # n /\ c # n

\* Mutant: the columns of the matrix are not compared.
DimsMismatchRows(r, c, n) == r # n

\* r != len(data) || c != len(data), the test every constructor and mutator
\* applies before it writes.
DimsMismatch(r, c, n) == r # n \/ c # n

\* ss/float64(len(data)) - mean*mean with ss the sum of the squares.
SecondMoment(data, mean) ==
    FSub(FDiv(Dot(data, data), Float(Len(data))), FMul(mean, mean))

(***************************************************************************)
(* Constructors.  h already holds the caller's arguments at "cd" and "cm". *)
(***************************************************************************)
\* NewGetisOrd(data, weights, locality); weights is [nil, v].
NewGetisOrd(h, data, weights, locality) ==
    IF Weighted(weights)
    THEN Panics(NotImplemented, NoEngine, h)
    ELSE LET r == h[locality].r
             c == h[locality].c
             n == Len(Slice(h, data))
         IN  IF DimsMismatch(r, c, n)
             THEN Panics(Mismatch, NoEngine, h)
             ELSE LET d    == CopySlice([i \in 1..n |-> 0], Slice(h, data))
                      h1   == [h EXCEPT !.ed = d, !.el = DenseCopyOf(h[locality])]
                      mean == Mean(Slice(h, data))
                      g    == [kind |-> "GetisOrd", data |-> "ed", locality |-> "el",
                               mean |-> mean, s |-> SecondMoment(Slice(h, data), mean)]
                  IN  Returns(g, h1, n)

\* Mutant: the engine keeps the caller's slice instead of a copy of it.
NewMoranKeepsSlice(h, data, locality) ==
    LET r == h[locality].r
        c == h[locality].c
        n == Len(Slice(h, data))
    IN  IF DimsMismatch(r, c, n)
        THEN Panics(Mismatch, NoEngine, h)
        ELSE LET h1 == [h EXCEPT !.ed = <<>>, !.el = DenseCopyOf(h[locality])]
                 m  == [kind |-> "Moran",
                        data |-> IF data = Nil THEN "ed" ELSE data,
                        locality |-> "el", mean |-> Mean(Slice(h, data)), s |-> Zero]
             IN  Returns(m, h1, n)

\* NewMoran(data, locality).
NewMoran(h, data, locality) ==
    LET r == h[locality].r
        c == h[locality].c
        n == Len(Slice(h, data))
    IN  IF DimsMismatch(r, c, n)
        THEN Panics(Mismatch, NoEngine, h)
        ELSE LET d  == CopySlice([i \in 1..n |-> 0], Slice(h, data))
                 h1 == [h EXCEPT !.ed = d, !.el = DenseCopyOf(h[locality])]
                 m  == [kind |-> "Moran", data |-> "ed", locality |-> "el",
                        mean |-> Mean(h1.ed), s |-> Zero]
             IN  Returns(m, h1, Len(h1.ed))

(***************************************************************************)
(* Mutators.  g, m are the receiver, h the heap holding the arguments.     *)
(***************************************************************************)
\* Mutant: the locality-only case falls through to the recomputation of
\* the moments, which it does from the absent data.
GetisOrdResetFallsThrough(g, h, data, locality) ==
    CASE data = Nil /\ locality = Nil -> Returns(g, h, -1)
      [] data = Nil /\ locality # Nil ->
           IF DimsMismatch(h[locality].r, h[locality].c, Len(h[g.data]))
           THEN Panics(Mismatch, g, h)
           ELSE LET mean == Mean(Slice(h, data))
                IN  Returns([g EXCEPT !.mean = mean,
                                      !.s = SecondMoment(Slice(h, data), mean)],
                            [h EXCEPT ![g.locality] =
                                DenseCopy(h[g.locality], h[locality])], 0)
      [] OTHER ->
           LET own == locality = Nil
               r   == IF own THEN h[g.locality].r ELSE h[locality].r
               c   == IF own THEN h[g.locality].c ELSE h[locality].c
               n   == Len(h[data])
           IN  IF DimsMismatch(r, c, n)
               THEN Panics(Mismatch, g, h)
               ELSE LET h1 == IF own
                              THEN [h EXCEPT ![g.data] = CopySlice(h[g.data], h[data])]
                              ELSE LET h0 == [h EXCEPT ![g.data] = h[data]]
                                   IN  [h0 EXCEPT ![g.locality] =
                                           DenseCopy(ResetGrow(r, c), h0[locality])]
                        mean == Mean(h1[data])
                    IN  Returns([g EXCEPT !.mean = mean,
                                          !.s = SecondMoment(h1[data], mean)], h1, n)

\* (g *GetisOrd) Reset(data, locality).
GetisOrdReset(g, h, data, locality) ==
    CASE data = Nil /\ locality = Nil -> Returns(g, h, -1)
      [] data = Nil /\ locality # Nil ->
           LET r == h[locality].r
               c == h[locality].c
               n == Len(h[g.data])
           IN  IF DimsMismatch(r, c, n)
               THEN Panics(Mismatch, g, h)
               ELSE Returns(g, [h EXCEPT ![g.locality] =
                                   DenseCopy(h[g.locality], h[locality])], -1)
      [] OTHER ->
           LET own == locality = Nil
               r   == IF own THEN h[g.locality].r ELSE h[locality].r
               c   == IF own THEN h[g.locality].c ELSE h[locality].c
               n   == Len(h[data])
           IN  IF DimsMismatch(r, c, n)
               THEN Panics(Mismatch, g, h)
               ELSE LET h1 == IF own
                              THEN [h EXCEPT ![g.data] = CopySlice(h[g.data], h[data])]
                              ELSE LET h0 == [h EXCEPT ![g.data] = h[data]]
                                   IN  [h0 EXCEPT ![g.locality] =
                                           DenseCopy(ResetGrow(r, c), h0[locality])]
                        mean == Mean(h1[data])
                    IN  Returns([g EXCEPT !.mean = mean,
                                          !.s = SecondMoment(h1[data], mean)], h1, n)

\* Mutant: the data is replaced and the cached mean is left as it was.
MoranResetStaleMean(m, h, data, locality) ==
    CASE data = Nil /\ locality = Nil -> Returns(m, h, -1)
      [] data = Nil /\ locality # Nil ->
           IF DimsMismatch(h[locality].r, h[locality].c, Len(h[m.data]))
           THEN Panics(Mismatch, m, h)
           ELSE Returns(m, [h EXCEPT ![m.locality] =
                               DenseCopy(h[m.locality], h[locality])], -1)
      [] OTHER ->
           LET own == locality = Nil
               r   == IF own THEN h[m.locality].r ELSE h[locality].r
               c   == IF own THEN h[m.locality].c ELSE h[locality].c
           IN  IF DimsMismatch(r, c, Len(h[data]))
               THEN Panics(Mismatch, m, h)
               ELSE LET h1 == IF own
                              THEN [h EXCEPT ![m.data] = CopySlice(h[m.data], h[data])]
                              ELSE LET h0 == [h EXCEPT ![m.data] = h[data]]
                                   IN  [h0 EXCEPT ![m.locality] =
                                           DenseCopy(ResetGrow(r, c), h0[locality])]
                    IN  Returns(m, h1, Len(h1[m.data]))

\* (m *Moran) Reset(data, locality).
MoranReset(m, h, data, locality) ==
    CASE data = Nil /\ locality = Nil -> Returns(m, h, -1)
      [] data = Nil /\ locality # Nil ->
           LET r == h[locality].r
               c == h[locality].c
               n == Len(h[m.data])
           IN  IF DimsMismatch(r, c, n)
               THEN Panics(Mismatch, m, h)
               ELSE Returns(m, [h EXCEPT ![m.locality] =
                                   DenseCopy(h[m.locality], h[locality])], -1)
      [] OTHER ->
           LET own == locality = Nil
               r   == IF own THEN h[m.locality].r ELSE h[locality].r
               c   == IF own THEN h[m.locality].c ELSE h[locality].c
               n   == Len(h[data])
           IN  IF DimsMismatch(r, c, n)
               THEN Panics(Mismatch, m, h)
               ELSE LET h1 == IF own
                              THEN [h EXCEPT ![m.data] = CopySlice(h[m.data], h[data])]
                              ELSE LET h0 == [h EXCEPT ![m.data] = h[data]]
                                   IN  [h0 EXCEPT ![m.locality] =
                                           DenseCopy(ResetGrow(r, c), h0[locality])]
                    IN  Returns([m EXCEPT !.mean = Mean(h1[m.data])], h1,
                                Len(h1[m.data]))

\* Mutant: the mean is recomputed and s is not.
GetisOrdSetDataKeepsS(g, h, data) ==
    LET r == h[g.locality].r
        c == h[g.locality].c
        n == Len(Slice(h, data))
    IN  IF DimsMismatch(r, c, n)
        THEN Panics(Mismatch, g, h)
        ELSE LET h1 == [h EXCEPT ![g.data] = CopySlice(h[g.data], Slice(h, data))]
             IN  Returns([g EXCEPT !.mean = Mean(Slice(h1, data))], h1, n)

\* (g *GetisOrd) SetData(data).
GetisOrdSetData(g, h, data) ==
    LET r == h[g.locality].r
        c == h[g.locality].c
        n == Len(Slice(h, data))
    IN  IF DimsMismatch(r, c, n)
        THEN Panics(Mismatch, g, h)
        ELSE LET h1   == [h EXCEPT ![g.data] = CopySlice(h[g.data], Slice(h, data))]
                 mean == Mean(Slice(h1, data))
             IN  Returns([g EXCEPT !.mean = mean,
                                   !.s = SecondMoment(Slice(h1, data), mean)], h1, n)

\* (g *GetisOrd) SetLocality(locality).
GetisOrdSetLocality(g, h, locality) ==
    LET r == h[locality].r
        c == h[locality].c
        n == Len(h[g.data])
    IN  IF DimsMismatch(r, c, n)
        THEN Panics(Mismatch, g, h)
        ELSE Returns(g, [h EXCEPT ![g.locality] =
                            DenseCopy(h[g.locality], h[locality])], -1)

\* Mutant: the copy is made before the dimensions are checked.
MoranSetDataCopiesFirst(m, h, data) ==
    LET r  == h[m.locality].r
        c  == h[m.locality].c
        n  == Len(Slice(h, data))
        h1 == [h EXCEPT ![m.data] = CopySlice(h[m.data], Slice(h, data))]
    IN  IF DimsMismatch(r, c, n)
        THEN Panics(Mismatch, m, h1)
        ELSE Returns([m EXCEPT !.mean = Mean(h1[m.data])], h1, Len(h1[m.data]))

\* (m *Moran) SetData(data).
MoranSetData(m, h, data) ==
    LET r == h[m.locality].r
        c == h[m.locality].c
        n == Len(Slice(h, data))
    IN  IF DimsMismatch(r, c, n)
        THEN Panics(Mismatch, m, h)
        ELSE LET h1 == [h EXCEPT ![m.data] = CopySlice(h[m.data], Slice(h, data))]
             IN  Returns([m EXCEPT !.mean = Mean(h1[m.data])], h1, Len(h1[m.data]))

\* (m *Moran) SetLocality(locality).
MoranSetLocality(m, h, locality) ==
    LET r == h[locality].r
        c == h[locality].c
        n == Len(h[m.data])
    IN  IF DimsMismatch(r, c, n)
        THEN Panics(Mismatch, m, h)
        ELSE Returns(m, [h EXCEPT ![m.locality] =
                            DenseCopy(h[m.locality], h[locality])], -1)

(***************************************************************************)
(* Queries.  The receiver is passed by value, so a query cannot change the *)
(* engine's own fields; it reaches the stores through the receiver's       *)
(* pointers, so its outcome is the returned value and the heap it leaves.  *)
(***************************************************************************)
\* (g GetisOrd) Len().
GetisOrdLen(g, h) == [ret |-> Len(h[g.data]), heap |-> h]

\* Mutant: column i of the locality is read instead of row i.
GstarOfColumn(g, h, i) ==
    LET wi  == [j \in 1..h[g.locality].r |-> h[g.locality].a[j][i + 1]]
        ws  == FMul(g.mean, SumVec(wi))
        n   == Float(Len(h[g.data]))
        num == FSub(Dot(wi, h[g.data]), ws)
        rad == FDiv(FSub(FMul(n, Dot(wi, wi)), FMul(ws, ws)), FSub(n, Float(1)))
    IN  [ret |-> SymDiv(num, SymMul(g.s, FSqrt(rad))), heap |-> h]

\* Mutant: the row of the locality is scaled in place on the way.
GstarScalesRow(g, h, i) ==
    LET wi  == h[g.locality].a[i + 1]
        ws  == FMul(g.mean, SumVec(wi))
        n   == Float(Len(h[g.data]))
        num == FSub(Dot(wi, h[g.data]), ws)
        rad == FDiv(FSub(FMul(n, Dot(wi, wi)), FMul(ws, ws)), FSub(n, Float(1)))
    IN  [ret |-> SymDiv(num, SymMul(g.s, FSqrt(rad))),
         heap |-> [h EXCEPT ![g.locality].a[i + 1] = [j \in 1..Len(wi) |-> 2 * wi[j]]]]

\* (g GetisOrd) Gstar(i), i a Go index in 0..n-1.
Gstar(g, h, i) ==
    LET wi  == h[g.locality].a[i + 1]
        ws  == FMul(g.mean, SumVec(wi))
        n   == Float(Len(h[g.data]))
        num == FSub(Dot(wi, h[g.data]), ws)
        rad == FDiv(FSub(FMul(n, Dot(wi, wi)), FMul(ws, ws)), FSub(n, Float(1)))
    IN  [ret |-> SymDiv(num, SymMul(g.s, FSqrt(rad))), heap |-> h]

\* Mutant: the product is not scaled by the number of elements.
MoranINotScaled(m, h) ==
    LET x   == h[m.data]
        w   == h[m.locality]
        n   == Len(x)
        z   == [i \in 1..n |-> FSub(Float(x[i]), m.mean)]
        den == FSumTo([i \in 1..n |-> FMul(z[i], z[i])], n)
        num == FSumTo([k \in 1..(n * n) |->
                          LET i == ((k - 1) \div n) + 1
                              j == ((k - 1) % n) + 1
                          IN  FMul(FMul(Float(w.a[i][j]), z[i]), z[j])], n * n)
    IN  [ret |-> FDiv(num, FMul(SumMat(w), den)), heap |-> h]

\* (m Moran) I().
MoranI(m, h) ==
    LET x   == h[m.data]
        w   == h[m.locality]
        n   == Len(x)
        z   == [i \in 1..n |-> FSub(Float(x[i]), m.mean)]
        den == FSumTo([i \in 1..n |-> FMul(z[i], z[i])], n)
        num == FSumTo([k \in 1..(n * n) |->
                          LET i == ((k - 1) \div n) + 1
                              j == ((k - 1) % n) + 1
                          IN  FMul(FMul(Float(w.a[i][j]), z[i]), z[j])], n * n)
    IN  [ret |-> FDiv(FMul(Float(n), num), FMul(SumMat(w), den)), heap |-> h]

\* (m Moran) E().
MoranE(m, h) == [ret |-> FDiv(Float(-1), Float(Len(h[m.data]) - 1)), heap |-> h]

\* Mutant: the per-row accumulator p2 is not restarted, so that row i adds
\* the square of the sum over the rows up to i.
MoranVarRunningP2(m, h) ==
    LET x    == h[m.data]
        w    == h[m.locality]
        len  == Len(x)
        v    == [i \in 1..len |->
                    LET d == FSub(Float(x[i]), m.mean) IN FMul(d, d)]
        var2 == FSumTo(v, len)
        var4 == FSumTo([i \in 1..len |-> FMul(v[i], v[i])], len)
        p2   == [i \in 1..len |->
                    FSumTo([k \in 1..(i * len) |->
                               LET r == ((k - 1) \div len) + 1
                                   q == ((k - 1) % len) + 1
                               IN  Float(w.a[r][q] + w.a[q][r])], i * len)]
        s0   == FSumTo([k \in 1..(len * len) |->
                    Float(w.a[((k - 1) \div len) + 1][((k - 1) % len) + 1])], len * len)
        s1a  == FSumTo([k \in 1..(len * len) |->
                    LET i  == ((k - 1) \div len) + 1
                        j  == ((k - 1) % len) + 1
                        vv == Float(w.a[i][j] + w.a[j][i])
                    IN  FMul(vv, vv)], len * len)
        s2   == FSumTo([i \in 1..len |-> FMul(p2[i], p2[i])], len)
        s1   == FMul(s1a, Rat(1, 2))
        n    == Float(len)
        nn   == FMul(n, n)
        a    == FMul(n, FAdd(FSub(FMul(FAdd(FSub(nn, FMul(Float(3), n)), Float(3)), s1),
                                  FMul(n, s2)),
                             FMul(FMul(Float(3), s0), s0)))
        c    == FMul(FMul(FMul(FMul(FSub(n, Float(1)), FSub(n, Float(2))),
                               FSub(n, Float(3))), s0), s0)
        d    == FDiv(var4, FMul(var2, var2))
        b    == FMul(d, FAdd(FSub(FMul(FSub(nn, n), s1), FMul(FMul(Float(2), n), s2)),
                             FMul(FMul(Float(6), s0), s0)))
        e    == FDiv(Float(-1), FSub(n, Float(1)))
    IN  [ret |-> FSub(FDiv(FSub(a, b), c), FMul(e, e)), heap |-> h]

\* (m Moran) Var().
MoranVar(m, h) ==
    LET x    == h[m.data]
        w    == h[m.locality]
        len  == Len(x)
        v    == [i \in 1..len |->
                    LET d == FSub(Float(x[i]), m.mean) IN FMul(d, d)]
        var2 == FSumTo(v, len)
        var4 == FSumTo([i \in 1..len |-> FMul(v[i], v[i])], len)
        p2   == [i \in 1..len |->
                    FSumTo([j \in 1..len |-> Float(w.a[i][j] + w.a[j][i])], len)]
        s0   == FSumTo([k \in 1..(len * len) |->
                    Float(w.a[((k - 1) \div len) + 1][((k - 1) % len) + 1])], len * len)
        s1a  == FSumTo([k \in 1..(len * len) |->
                    LET i  == ((k - 1) \div len) + 1
                        j  == ((k - 1) % len) + 1
                        vv == Float(w.a[i][j] + w.a[j][i])
                    IN  FMul(vv, vv)], len * len)
        s2   == FSumTo([i \in 1..len |-> FMul(p2[i], p2[i])], len)
        s1   == FMul(s1a, Rat(1, 2))
        n    == Float(len)
        nn   == FMul(n, n)
        a    == FMul(n, FAdd(FSub(FMul(FAdd(FSub(nn, FMul(Float(3), n)), Float(3)), s1),
                                  FMul(n, s2)),
                             FMul(FMul(Float(3), s0), s0)))
        c    == FMul(FMul(FMul(FMul(FSub(n, Float(1)), FSub(n, Float(2))),
                               FSub(n, Float(3))), s0), s0)
        d    == FDiv(var4, FMul(var2, var2))
        b    == FMul(d, FAdd(FSub(FMul(FSub(nn, n), s1), FMul(FMul(Float(2), n), s2)),
                             FMul(FMul(Float(6), s0), s0)))
        e    == MoranE(m, h).ret
    IN  [ret |-> FSub(FDiv(FSub(a, b), c), FMul(e, e)), heap |-> h]

\* (m Moran) Z().
MoranZ(m, h) ==
    [ret |-> SymDiv(FSub(MoranI(m, h).ret, MoranE(m, h).ret), FSqrt(MoranVar(m, h).ret)),
     heap |-> h]

(***************************************************************************)
(* GlobalMoransI(data, weights, locality): the stateless function.  Its    *)
(* outcome carries the returned (i, v, z) in the field ret.                *)
(***************************************************************************)
NoRet == [k |-> "none"]

GlobalMoransI(h, data, weights, locality) ==
    IF Weighted(weights)
    THEN [err |-> NotImplemented, ret |-> NoRet, meanLen |-> -1]
    ELSE
    LET x   == Slice(h, data)
        w   == h[locality]
        len == Len(x)
    IN  IF DimsMismatch(w.r, w.c, len)
        THEN [err |-> Mismatch, ret |-> NoRet, meanLen |-> -1]
        ELSE
        LET mean == Mean(x)
            \* Moran's I.
            zz   == [i \in 1..len |-> FSub(Float(x[i]), mean)]
            den  == FSumTo([i \in 1..len |-> FMul(zz[i], zz[i])], len)
            num  == FSumTo([k \in 1..(len * len) |->
                        LET i == ((k - 1) \div len) + 1
                            j == ((k - 1) % len) + 1
                        IN  FMul(FMul(Float(w.a[i][j]), zz[i]), zz[j])], len * len)
            i0   == FDiv(FMul(Float(len), num), FMul(SumMat(w), den))
            \* Moran's E(I).
            e    == FDiv(Float(-1), Float(len - 1))
            \* Moran's Var(I).
            v    == [i \in 1..len |-> FMul(zz[i], zz[i])]
            var2 == FSumTo(v, len)
            var4 == FSumTo([i \in 1..len |-> FMul(v[i], v[i])], len)
            p2   == [i \in 1..len |->
                        FSumTo([j \in 1..len |-> Float(w.a[i][j] + w.a[j][i])], len)]
            s0   == FSumTo([k \in 1..(len * len) |->
                        Float(w.a[((k - 1) \div len) + 1][((k - 1) % len) + 1])],
                        len * len)
            s1a  == FSumTo([k \in 1..(len * len) |->
                        LET i  == ((k - 1) \div len) + 1
                            j  == ((k - 1) % len) + 1
                            vv == Float(w.a[i][j] + w.a[j][i])
                        IN  FMul(vv, vv)], len * len)
            s2   == FSumTo([i \in 1..len |-> FMul(p2[i], p2[i])], len)
            s1   == FMul(s1a, Rat(1, 2))
            n    == Float(len)
            nn   == FMul(n, n)
            a    == FMul(n, FAdd(FSub(FMul(FAdd(FSub(nn, FMul(Float(3), n)), Float(3)),
                                           s1), FMul(n, s2)),
                                 FMul(FMul(Float(3), s0), s0)))
            c    == FMul(FMul(FMul(FMul(FSub(n, Float(1)), FSub(n, Float(2))),
                                   FSub(n, Float(3))), s0), s0)
            d    == FDiv(var4, FMul(var2, var2))
            b    == FMul(d, FAdd(FSub(FMul(FSub(nn, n), s1),
                                      FMul(FMul(Float(2), n), s2)),
                                 FMul(FMul(Float(6), s0), s0)))
            v0   == FSub(FDiv(FSub(a, b), c), FMul(e, e))
            \* z-score.
            z0   == SymDiv(FSub(i0, e), FSqrt(v0))
        IN  [err |-> "", ret |-> [i |-> i0, v |-> v0, z |-> z0], meanLen |-> len]

(***************************************************************************)
(* The caller: the arguments it can pass.                                  *)
(***************************************************************************)
\* Length of the example data and size of the example locality matrix.
ExampleN == 10

ExampleData == <<0, 0, 0, 1, 1, 1, 0, 1, 0, 0>>

DataVals == {0, 1}

\* Entry (i, j) of the locality patterns: the path graph of the Moran
\* example, the window of three of the GetisOrd example, and a matrix that
\* is not symmetric and has self-weights.
Weight(p, i, j) ==
    CASE p = "path"   -> IF i - j = 1 \/ j - i = 1 THEN 1 ELSE 0
      [] p = "window" -> IF i - j <= 1 /\ j - i <= 1 THEN 1 ELSE 0
      [] p = "skew"   -> IF j = i + 1 THEN 2 ELSE IF j = i THEN 1 ELSE 0

Pattern(r, c, p) ==
    [r |-> r, c |-> c, a |-> [i \in 1..r |-> [j \in 1..c |-> Weight(p, i, j)]]]

Patterns == {"path", "window", "skew"}

NilData == [nil |-> TRUE, v |-> <<>>]

\* A data argument: nil, or a slice of at most MaxN values, or the example.
DataArgs ==
    {NilData}
    \cup {[nil |-> FALSE, v |-> x] :
             x \in UNION {[1..n -> DataVals] : n \in 0..MaxN} \cup {ExampleData}}

\* A locality argument that is not nil: a square matrix of each pattern, a
\* matrix that is not square, or the example.
Matrices ==
    {Pattern(n, n, p) : n \in 0..MaxN, p \in Patterns}
    \cup {Pattern(r, c, "window") : r \in 0..MaxN, c \in 0..MaxN}
    \cup {Pattern(ExampleN, ExampleN, "path")}

LocalityArgs == {[nil |-> FALSE, m |-> x] : x \in Matrices}

NilLocality == [nil |-> TRUE, m |-> Empty0x0]

\* The smallest number of elements for which (n-1)*(n-2)*(n-3), the factor
\* of the divisor c of Var(), is not zero.
VarMinN == 4

\* Two stretches of the example of that length, with one and with two ones.
VarData == {SubSeq(ExampleData, 1, VarMinN), SubSeq(ExampleData, 2, VarMinN + 1)}

\* The arguments of a constructor or of GlobalMoransI, as pairs of data and
\* locality: any of the above, or data of that length with the locality of
\* that size that is not symmetric and has self-weights.
NewArgs ==
    (DataArgs \X LocalityArgs)
    \cup {<<[nil |-> FALSE, v |-> x],
            [nil |-> FALSE, m |-> Pattern(VarMinN, VarMinN, "skew")]>> : x \in VarData}

\* A weights argument: nil, empty but not nil, or not empty.
WeightsArgs == {[nil |-> TRUE, v |-> <<>>], [nil |-> FALSE, v |-> <<>>],
                [nil |-> FALSE, v |-> <<1>>]}

NoWeights == [nil |-> TRUE, v |-> <<>>]

DataRef(d) == IF d.nil THEN Nil ELSE "cd"

LocalityRef(l) == IF l.nil THEN Nil ELSE "cm"

\* The heap once the caller has built the arguments d and l.
WithArgs(h, d, l) == [h EXCEPT !.cd = d.v, !.cm = l.m]

\* The heap once the caller has dropped its arguments.
DropArgs(h) == [h EXCEPT !.cd = <<>>, !.cm = Empty0x0]

\* The record of a call that took arguments: which of them were not nil,
\* their dimensions, the panic's message or "", the returned value, the
\* length of the slice stat.Mean was applied to, and the number of elements
\* the receiver held before the call (-1 when there is no receiver).
Called(op, d, w, l, err, ret, ml, pl) ==
    [op |-> op, data |-> DataRef(d), dlen |-> Len(d.v),
     locality |-> LocalityRef(l), r |-> l.m.r, c |-> l.m.c,
     w |-> IF w.nil THEN "nil" ELSE IF w.v = <<>> THEN "empty" ELSE "some",
     idx |-> -1, err |-> err, ret |-> ret, meanLen |-> ml, prevLen |-> pl]

\* The record of a step that took no such arguments.
Step(op, i, ret) ==
    [op |-> op, data |-> Nil, dlen |-> 0, locality |-> Nil, r |-> 0, c |-> 0,
     w |-> "nil",
     idx |-> i, err |-> "", ret |-> ret, meanLen |-> -1, prevLen |-> -1]

(***************************************************************************)
(* The state machine.  eng is the engine under study (none before its      *)
(* constructor returns), heap the stores, call the latest step.  A run     *)
(* either constructs one engine and then mutates and queries it, or calls  *)
(* the stateless function, which has no receiver.  The caller keeps the    *)
(* arguments of a call that returned until its next step, and may          *)
(* overwrite an element of them in between.                                *)
(***************************************************************************)
Init ==
    /\ eng = NoEngine
    /\ heap = [cd |-> <<>>, cm |-> Empty0x0, ed |-> <<>>, el |-> Empty0x0]
    /\ call = Step("init", -1, NoRet)

\* A constructor: the engine variable is assigned only when it returns.
Construct(op, d, w, l, out) ==
    /\ eng' = IF out.err = "" THEN out.eng ELSE eng
    /\ heap' = IF out.err = "" THEN out.heap ELSE DropArgs(heap)
    /\ call' = Called(op, d, w, l, out.err, NoRet, out.meanLen, -1)

\* A mutator acts on the receiver in place, also when it panics.
Mutate(op, d, l, out) ==
    /\ eng' = out.eng
    /\ heap' = IF out.err = "" THEN out.heap ELSE DropArgs(out.heap)
    /\ call' = Called(op, d, NoWeights, l, out.err, NoRet, out.meanLen,
                    Len(heap[eng.data]))

Query(op, i, out) ==
    /\ eng' = eng
    /\ heap' = out.heap
    /\ call' = Step(op, i, out.ret)

CallNewGetisOrd ==
    /\ eng.kind = "none"
    /\ \E a \in NewArgs, w \in WeightsArgs :
        LET d == a[1]
            l == a[2]
        IN  Construct("NewGetisOrd", d, w, l,
                      NewGetisOrd(WithArgs(heap, d, l), DataRef(d), w, LocalityRef(l)))

CallNewMoran ==
    /\ eng.kind = "none"
    /\ \E a \in NewArgs :
        LET d == a[1]
            l == a[2]
        IN  Construct("NewMoran", d, NoWeights, l,
                      NewMoran(WithArgs(heap, d, l), DataRef(d), LocalityRef(l)))

CallGetisOrdReset ==
    /\ eng.kind = "GetisOrd"
    /\ \E d \in DataArgs, l \in LocalityArgs \cup {NilLocality} :
        Mutate("Reset", d, l,
               GetisOrdReset(eng, WithArgs(heap, d, l), DataRef(d), LocalityRef(l)))

CallMoranReset ==
    /\ eng.kind = "Moran"
    /\ \E d \in DataArgs, l \in LocalityArgs \cup {NilLocality} :
        Mutate("Reset", d, l,
               MoranReset(eng, WithArgs(heap, d, l), DataRef(d), LocalityRef(l)))

CallGetisOrdSetData ==
    /\ eng.kind = "GetisOrd"
    /\ \E d \in DataArgs :
        Mutate("SetData", d, NilLocality,
               GetisOrdSetData(eng, WithArgs(heap, d, NilLocality), DataRef(d)))

CallGetisOrdSetLocality ==
    /\ eng.kind = "GetisOrd"
    /\ \E l \in LocalityArgs :
        Mutate("SetLocality", NilData, l,
               GetisOrdSetLocality(eng, WithArgs(heap, NilData, l), LocalityRef(l)))

CallMoranSetData ==
    /\ eng.kind = "Moran"
    /\ \E d \in DataArgs :
        Mutate("SetData", d, NilLocality,
               MoranSetData(eng, WithArgs(heap, d, NilLocality), DataRef(d)))

CallMoranSetLocality ==
    /\ eng.kind = "Moran"
    /\ \E l \in LocalityArgs :
        Mutate("SetLocality", NilData, l,
               MoranSetLocality(eng, WithArgs(heap, NilData, l), LocalityRef(l)))

CallGetisOrdLen ==
    /\ eng.kind = "GetisOrd"
    /\ Query("Len", -1, GetisOrdLen(eng, DropArgs(heap)))

CallGstar ==
    /\ eng.kind = "GetisOrd"
    /\ \E i \in 0..(Len(heap[eng.data]) - 1) :
        Query("Gstar", i, Gstar(eng, DropArgs(heap), i))

CallMoranI ==
    /\ eng.kind = "Moran"
    /\ Query("I", -1, MoranI(eng, DropArgs(heap)))

CallMoranE ==
    /\ eng.kind = "Moran"
    /\ Query("E", -1, MoranE(eng, DropArgs(heap)))

CallMoranVar ==
    /\ eng.kind = "Moran"
    /\ Query("Var", -1, MoranVar(eng, DropArgs(heap)))

CallMoranZ ==
    /\ eng.kind = "Moran"
    /\ Query("Z", -1, MoranZ(eng, DropArgs(heap)))

\* The stateless function.
CallGlobalMoransI ==
    /\ eng.kind = "none"
    /\ \E a \in NewArgs, w \in WeightsArgs :
        LET d   == a[1]
            l   == a[2]
            out == GlobalMoransI(WithArgs(heap, d, l), DataRef(d), w, LocalityRef(l))
        IN  /\ eng' = eng
            /\ heap' = IF out.err = "" THEN WithArgs(heap, d, l) ELSE DropArgs(heap)
            /\ call' = Called("GlobalMoransI", d, w, l, out.err, out.ret, out.meanLen, -1)

\* After a call returned, the caller overwrites one element of the data
\* slice it passed in.
CallerWriteData ==
    /\ call.op # "CallerWrite"
    /\ \E i \in 1..Len(heap.cd) : \E v \in DataVals \ {heap.cd[i]} :
        /\ heap' = [heap EXCEPT !.cd[i] = v]
        /\ call' = Step("CallerWrite", -1, NoRet)
        /\ eng' = eng

\* After a call returned, the caller overwrites one element of the matrix
\* it passed in.
CallerWriteLocality ==
    /\ call.op # "CallerWrite"
    /\ \E i \in 1..heap.cm.r, j \in 1..heap.cm.c : \E v \in DataVals \ {heap.cm.a[i][j]} :
        /\ heap' = [heap EXCEPT !.cm.a[i][j] = v]
        /\ call' = Step("CallerWrite", -1, NoRet)
        /\ eng' = eng

Next ==
    \/ CallNewGetisOrd
    \/ CallNewMoran
    \/ CallGetisOrdReset
    \/ CallMoranReset
    \/ CallGetisOrdSetData
    \/ CallGetisOrdSetLocality
    \/ CallMoranSetData
    \/ CallMoranSetLocality
    \/ CallGetisOrdLen
    \/ CallGstar
    \/ CallMoranI
    \/ CallMoranE
    \/ CallMoranVar
    \/ CallMoranZ
    \/ CallGlobalMoransI
    \/ CallerWriteData
    \/ CallerWriteLocality

Spec == Init /\ [][Next]_vars

(***************************************************************************)
(* What the engine holds, read through its pointers.                       *)
(***************************************************************************)
Constructed == eng.kind # "none"

HeldData == heap[eng.data]

HeldLocality == heap[eng.locality]

Mutators == {"Reset", "SetData", "SetLocality"}

Constructors == {"NewGetisOrd", "NewMoran"}

Queries == {"Len", "Gstar", "I", "E", "Var", "Z"}

\* A matrix whose rows are as many and as long as its dimensions say.
WellFormed(m) == Len(m.a) = m.r /\ \A i \in 1..m.r : Len(m.a[i]) = m.c

(***************************************************************************)
(* C1.  Dimension invariant: once a constructor has returned, and after    *)
(* any sequence of Reset, SetData and SetLocality calls, the held locality *)
(* matrix is square with as many rows and columns as the held data has     *)
(* elements.                                                               *)
(***************************************************************************)
C1_DimensionInvariant ==
    Constructed =>
        /\ WellFormed(HeldLocality)
        /\ HeldLocality.r = Len(HeldData)
        /\ HeldLocality.c = Len(HeldData)

\* A Reset that supplied both arguments returned and changed the size.
C1_Witness ==
    /\ Constructed
    /\ call.op = "Reset" /\ call.err = ""
    /\ call.data # Nil /\ call.locality # Nil
    /\ call.prevLen # Len(HeldData)
    /\ Len(HeldData) > 0

(***************************************************************************)
(* C2.  A rejected call leaves the engine unchanged.  The step that made   *)
(* the call recorded in call' started from the unprimed state.             *)
(***************************************************************************)
\* The dimensions the call recorded in k supplied disagree: with each other
\* when both were supplied, with the held counterpart when one was.
Disagree(k) ==
    CASE k.op \in Constructors ->
           k.r # k.dlen \/ k.c # k.dlen
      [] k.op = "Reset" /\ k.data # Nil /\ k.locality # Nil ->
           k.r # k.dlen \/ k.c # k.dlen
      [] k.op \in {"Reset", "SetLocality"} /\ k.data = Nil /\ k.locality # Nil ->
           k.r # Len(HeldData) \/ k.c # Len(HeldData)
      [] k.op = "SetData" \/ (k.op = "Reset" /\ k.data # Nil /\ k.locality = Nil) ->
           HeldLocality.r # k.dlen \/ HeldLocality.c # k.dlen
      [] OTHER -> FALSE

\* The engine's fields and the stores they point to are the same in the
\* next state.
EngineUnchanged ==
    /\ eng' = eng
    /\ Constructed => /\ heap'[eng'.data] = HeldData
                      /\ heap'[eng'.locality] = HeldLocality

\* C2 as stated by the claim: every call of a constructor, Reset, SetData
\* or SetLocality whose dimensions disagree panics with "data length
\* mismatch" and leaves the held data, the held locality and the cached
\* moments as they were.
C2_AsClaimed ==
    [][(call'.op \in Constructors \cup Mutators /\ Disagree(call'))
          => (call'.err = Mismatch /\ EngineUnchanged)]_vars

\* C2 as amended: such a call panics with "data length mismatch" unless it
\* is a call of NewGetisOrd with weights that are not nil, which panics with
\* "weighted data not yet implemented" before the dimensions are looked at;
\* in both cases the held data, the held locality and the cached moments
\* are left as they were.
C2_RejectedCallChangesNothing ==
    [][(call'.op \in Constructors \cup Mutators /\ Disagree(call'))
          => /\ call'.err = (IF call'.w # "nil" THEN NotImplemented ELSE Mismatch)
             /\ EngineUnchanged]_vars

\* SetData was rejected on an engine that holds data.
C2_Witness ==
    /\ Constructed
    /\ call.op = "SetData" /\ call.err = Mismatch
    /\ call.dlen > 0 /\ Len(HeldData) > call.dlen

(***************************************************************************)
(* C3.  Cache consistency: the cached mean is the arithmetic mean of the   *)
(* held data and, for GetisOrd, the cached s is (1/n)*sum(x_i^2) - mean^2  *)
(* of the held data (both NaN when no data is held).                       *)
(***************************************************************************)
\* sum(x)/n as one fraction.
MeanOf(x) ==
    IF Len(x) = 0 THEN NaN ELSE Rat(SumTo(x, Len(x)), Len(x))

\* (1/n)*sum(x_i^2) - (sum(x)/n)^2 as one fraction.
SOf(x) ==
    IF Len(x) = 0 THEN NaN
    ELSE Rat(Len(x) * DotTo(x, x, Len(x)) - SumTo(x, Len(x)) * SumTo(x, Len(x)),
             Len(x) * Len(x))

C3_CacheConsistent ==
    Constructed =>
        /\ eng.mean = MeanOf(HeldData)
        /\ eng.kind = "GetisOrd" => eng.s = SOf(HeldData)

\* A data-only Reset of a GetisOrd engine returned and changed the moments.
C3_Witness ==
    /\ eng.kind = "GetisOrd"
    /\ call.op = "Reset" /\ call.err = "" /\ call.locality = Nil /\ call.data # Nil
    /\ eng.mean = Rat(1, 2) /\ eng.s = Rat(1, 4)

(***************************************************************************)
(* C4.  Weights that are not empty make NewGetisOrd and GlobalMoransI      *)
(* panic with "weighted data not yet implemented", whatever the data and   *)
(* the locality: no engine and no result is returned.                      *)
(***************************************************************************)
C4_WeightsNotImplemented ==
    (call.op \in {"NewGetisOrd", "GlobalMoransI"} /\ call.w = "some") =>
        /\ call.err = NotImplemented
        /\ call.ret = NoRet
        /\ ~Constructed

\* GlobalMoransI was called with weights and with dimensions that disagree.
C4_Witness ==
    /\ call.op = "GlobalMoransI" /\ call.w = "some"
    /\ call.r # call.dlen
    /\ call.err = NotImplemented

\* NewGetisOrd was called with weights and with dimensions that agree.
C4_WitnessConstructor ==
    /\ call.op = "NewGetisOrd" /\ call.w = "some"
    /\ call.r = call.dlen /\ call.c = call.dlen /\ call.dlen > 0
    /\ call.err = NotImplemented

(***************************************************************************)
(* C5.  Stateless/engine equivalence: for data and a square locality of    *)
(* matching size and no weights, GlobalMoransI returns the three values    *)
(* that I(), Var() and Z() return on the engine NewMoran builds from the   *)
(* same arguments, and on a Moran engine that any sequence of successful   *)
(* Reset, SetData and SetLocality calls brought to hold them.              *)
(***************************************************************************)
\* What I(), Var() and Z() return on the engine m over the heap h.
EngineTriple(m, h) ==
    [i |-> MoranI(m, h).ret, v |-> MoranVar(m, h).ret, z |-> MoranZ(m, h).ret]

\* GlobalMoransI applied to the data x and the locality w.
StatelessOn(x, w) ==
    GlobalMoransI([heap EXCEPT !.cd = x, !.cm = w], "cd", NoWeights, "cm")

C5_StatelessEqualsEngine ==
    /\ eng.kind = "Moran" =>
          /\ StatelessOn(HeldData, HeldLocality).err = ""
          /\ StatelessOn(HeldData, HeldLocality).ret = EngineTriple(eng, heap)
    /\ (call.op = "GlobalMoransI" /\ call.err = "") =>
          LET built == NewMoran(heap, "cd", "cm")
          IN  /\ built.err = ""
              /\ call.ret = EngineTriple(built.eng, built.heap)

\* A Reset that replaced the data of a Moran engine returned, and I() is -1
\* on what the engine holds now.
C5_Witness ==
    /\ eng.kind = "Moran"
    /\ call.op = "Reset" /\ call.err = "" /\ call.data # Nil
    /\ MoranI(eng, heap).ret = Float(-1)
    /\ StatelessOn(HeldData, HeldLocality).ret.i = Float(-1)

(***************************************************************************)
(* C6.  Absent arguments keep the current value.  Reset(nil, nil) changes  *)
(* nothing in the engine; Reset(nil, locality) and SetLocality(locality)   *)
(* replace the held locality by the one supplied and leave the held data   *)
(* and the cached moments as they were; Reset(data, nil) and SetData(data) *)
(* replace the held data by the one supplied, recompute the moments from   *)
(* it and leave the held locality as it was.                               *)
(***************************************************************************)
C6_AbsentKeepsCurrent ==
    [][(call'.op \in Mutators /\ call'.err = "") =>
          /\ (call'.op = "Reset" /\ call'.data = Nil /\ call'.locality = Nil)
                => EngineUnchanged
          /\ (call'.op \in {"Reset", "SetLocality"} /\ call'.data = Nil
                  /\ call'.locality # Nil)
                => /\ eng' = eng
                   /\ heap'[eng'.data] = HeldData
                   /\ heap'[eng'.locality] = heap'.cm
          /\ (call'.locality = Nil
                  /\ (call'.op = "SetData" \/ (call'.op = "Reset" /\ call'.data # Nil)))
                => /\ eng'.data = eng.data /\ eng'.locality = eng.locality
                   /\ heap'[eng'.locality] = HeldLocality
                   /\ heap'[eng'.data] = heap'.cd
                   /\ eng'.mean = MeanOf(heap'.cd)
                   /\ eng'.kind = "GetisOrd" => eng'.s = SOf(heap'.cd)]_vars

\* A locality-only Reset of a GetisOrd engine returned: the engine holds the
\* matrix supplied and the moments of the data it held before.
C6_Witness ==
    /\ eng.kind = "GetisOrd"
    /\ call.op = "Reset" /\ call.err = "" /\ call.data = Nil /\ call.locality # Nil
    /\ HeldData = <<0, 1>> /\ eng.mean = Rat(1, 2) /\ eng.s = Rat(1, 4)
    /\ HeldLocality = Pattern(2, 2, "skew")

\* A data-only SetData of a Moran engine returned.
C6_WitnessData ==
    /\ eng.kind = "Moran"
    /\ call.op = "SetData" /\ call.err = "" /\ call.data # Nil
    /\ HeldData = <<1, 0>> /\ HeldLocality = Pattern(2, 2, "path")

(***************************************************************************)
(* What every query returns on the engine e over the heap h.               *)
(***************************************************************************)
QueryValuesOf(e, h) ==
    CASE e.kind = "GetisOrd" ->
           [len   |-> GetisOrdLen(e, h).ret,
            gstar |-> [i \in 0..(Len(h[e.data]) - 1) |-> Gstar(e, h, i).ret]]
      [] e.kind = "Moran" ->
           [i |-> MoranI(e, h).ret, e |-> MoranE(e, h).ret,
            v |-> MoranVar(e, h).ret, z |-> MoranZ(e, h).ret]
      [] OTHER -> NoRet

QueryValues == QueryValuesOf(eng, heap)

(***************************************************************************)
(* C7.  No aliasing of caller storage: once a constructor, Reset, SetData  *)
(* or SetLocality has returned, a write by the caller to the data slice or *)
(* the matrix it passed in changes neither the held data, the held         *)
(* locality, the cached moments nor the value of any query.                *)
(***************************************************************************)
C7_NoAliasing ==
    [][(call'.op = "CallerWrite" /\ Constructed) =>
          /\ EngineUnchanged
          /\ QueryValuesOf(eng', heap') = QueryValues]_vars

\* The caller has overwritten an element of the slice a constructor or
\* mutator copied, and the engine still holds the old elements.
C7_Witness ==
    /\ Constructed
    /\ call.op = "CallerWrite"
    /\ Len(heap.cd) = Len(HeldData) /\ Len(HeldData) > 0
    /\ heap.cd # HeldData

\* The caller has overwritten an element of the matrix that was copied.
C7_WitnessLocality ==
    /\ Constructed
    /\ call.op = "CallerWrite"
    /\ heap.cm.r = HeldLocality.r /\ HeldLocality.r > 0
    /\ heap.cm # HeldLocality

(***************************************************************************)
(* C8.  Queries are read-only: Len, Gstar(i) for 0 <= i < n, I, E, Var and *)
(* Z leave the held data, the held locality and the cached moments as they *)
(* were, so every query returns after it what it returned before it, and   *)
(* the query made returns what it would have returned alone.               *)
(***************************************************************************)
\* The value the query recorded in k has in the record q of query values.
ValueIn(q, k) ==
    CASE k.op = "Len"   -> q.len
      [] k.op = "Gstar" -> q.gstar[k.idx]
      [] k.op = "I"     -> q.i
      [] k.op = "E"     -> q.e
      [] k.op = "Var"   -> q.v
      [] k.op = "Z"     -> q.z

\* (Where the step leaves the engine and the whole heap as they were, the
\* values after it are the values before it and are not computed again.)
C8_QueriesReadOnly ==
    [][call'.op \in Queries =>
          LET before == QueryValues
          IN  /\ EngineUnchanged
              /\ \/ eng' = eng /\ heap' = heap
                 \/ QueryValuesOf(eng', heap') = before
              /\ call'.ret = ValueIn(before, call')]_vars

\* Gstar returned on an engine whose row i has weights.
C8_Witness ==
    /\ eng.kind = "GetisOrd"
    /\ call.op = "Gstar" /\ call.idx = 0
    /\ Len(HeldData) = 2 /\ HeldLocality = Pattern(2, 2, "skew")
    /\ call.ret = QueryValues.gstar[0]

(***************************************************************************)
(* C9.  The mean helper and empty data.                                    *)
(***************************************************************************)
\* C9 as stated by the claim: no call that passes the dimension check
\* applies the mean helper to a sequence of length zero, and empty data
\* with a 0x0 locality is not accepted.
C9_AsClaimed ==
    /\ call.meanLen # 0
    /\ (call.op \in Constructors \cup {"GlobalMoransI"}
           /\ call.dlen = 0 /\ call.r = 0 /\ call.c = 0) => call.err # ""

\* C9 as amended: the mean helper is applied only by a call that passed the
\* dimension check, to a sequence with as many elements as the locality the
\* check looked at has rows and columns; that number may be zero, since a
\* constructor or GlobalMoransI called without weights on empty data and a
\* 0x0 locality is accepted.
C9_MeanLengthIsDimension ==
    /\ call.meanLen # -1 =>
          /\ call.err = ""
          /\ call.op \in Constructors \cup {"Reset", "SetData", "GlobalMoransI"}
          /\ call.meanLen = call.dlen
          /\ IF call.locality # Nil
             THEN call.r = call.meanLen /\ call.c = call.meanLen
             ELSE HeldLocality.r = call.meanLen /\ HeldLocality.c = call.meanLen
    /\ (call.op \in Constructors \cup {"GlobalMoransI"} /\ call.w = "nil"
           /\ call.dlen = 0 /\ call.r = 0 /\ call.c = 0)
          => call.err = "" /\ call.meanLen = 0

\* NewMoran was called on empty data and a 0x0 locality and returned an
\* engine that holds nothing.
C9_Witness ==
    /\ eng.kind = "Moran"
    /\ call.op = "NewMoran" /\ call.err = ""
    /\ call.dlen = 0 /\ call.r = 0 /\ call.c = 0
    /\ call.meanLen = 0 /\ Len(HeldData) = 0

(***************************************************************************)
(* C10.  Moran's I: for held data x of length n with mean m and locality w *)
(* (symmetric or not, self-weights as supplied), I() and the first result  *)
(* of GlobalMoransI are                                                    *)
(*     n * sum_i sum_j w[i][j]*(x_i - m)*(x_j - m)                         *)
(*     / ((sum of all w[i][j]) * sum_i (x_i - m)^2)                        *)
(* and E() is -1/(n-1); on the 10-point path graph with the data           *)
(* {0,0,0,1,1,1,0,1,0,0}, I is 1/9.  Where the formula divides by zero the *)
(* float64 quotient is taken: NaN for 0/0, an infinity otherwise.          *)
(***************************************************************************)
RECURSIVE CrossRow(_, _, _, _, _)
\* The sum over j <= k of w[i][j] * (n*x_i - S) * (n*x_j - S), with
\* n = Len(x) and S = sum(x): row i of the numerator's double sum with every
\* deviation scaled by n.
CrossRow(x, w, sum, i, k) ==
    IF k = 0 THEN 0
    ELSE CrossRow(x, w, sum, i, k - 1)
           + w.a[i][k] * (Len(x) * x[i] - sum) * (Len(x) * x[k] - sum)

RECURSIVE CrossTo(_, _, _, _)
\* The sum of the rows i <= k.
CrossTo(x, w, sum, k) ==
    IF k = 0 THEN 0
    ELSE CrossTo(x, w, sum, k - 1) + CrossRow(x, w, sum, k, Len(x))

\* The formula of the claim as one fraction of integers: with the
\* deviations scaled by n, numerator and denominator both gain n^2.
IOf(x, w) ==
    LET n     == Len(x)
        sum   == SumTo(x, n)
        cross == CrossTo(x, w, sum, n)
        sq    == n * n * DotTo(x, x, n) - n * sum * sum
        wsum  == SumRows(w, w.r)
    IN  IF wsum * sq # 0 THEN Rat(n * cross, wsum * sq)
        ELSE IF n * cross = 0 THEN NaN ELSE Inf(Sgn(n * cross))

EOf(n) == IF n = 1 THEN Inf(-1) ELSE Rat(-1, n - 1)

C10_MoranIFormula ==
    /\ eng.kind = "Moran" =>
          /\ MoranI(eng, heap).ret = IOf(HeldData, HeldLocality)
          /\ MoranE(eng, heap).ret = EOf(Len(HeldData))
          /\ (HeldData = ExampleData
                  /\ HeldLocality = Pattern(ExampleN, ExampleN, "path"))
                => MoranI(eng, heap).ret = Rat(1, 9)
    /\ (call.op = "GlobalMoransI" /\ call.err = "") =>
          call.ret.i = IOf(heap.cd, heap.cm)
    /\ (call.op = "I" /\ eng.kind = "Moran") =>
          call.ret = IOf(HeldData, HeldLocality)
    /\ (call.op = "E" /\ eng.kind = "Moran") => call.ret = EOf(Len(HeldData))

\* I() returned 1/9 on the example.
C10_Witness ==
    /\ eng.kind = "Moran"
    /\ call.op = "I" /\ call.ret = Rat(1, 9)
    /\ HeldData = ExampleData
    /\ HeldLocality = Pattern(ExampleN, ExampleN, "path")

\* I() returned a number on a locality that is not symmetric and has
\* self-weights.
C10_WitnessSkew ==
    /\ eng.kind = "Moran"
    /\ call.op = "I" /\ call.ret.k = "fin"
    /\ HeldLocality = Pattern(2, 2, "skew")

(***************************************************************************)
(* C11.  Moran's variance: for held data x of length n >= 4 and locality w *)
(* Var() and the second result of GlobalMoransI are (a - b)/c - E^2 with   *)
(*   s0 = sum_ij w_ij,  s1 = (1/2) * sum_ij (w_ij + w_ji)^2,               *)
(*   s2 = sum_i (sum_j (w_ij + w_ji))^2,                                   *)
(*   var2 = sum_i (x_i - mean)^2,  var4 = sum_i (x_i - mean)^4,            *)
(*   d = var4/var2^2,  a = n*((n^2 - 3n + 3)*s1 - n*s2 + 3*s0^2),          *)
(*   b = d*((n^2 - n)*s1 - 2n*s2 + 6*s0^2),  c = (n-1)(n-2)(n-3)*s0^2,     *)
(*   E = -1/(n-1):                                                         *)
(* the row sum inside s2 starts at zero for every i and s1 is halved once. *)
(* Where the formula divides by zero (c = 0, which every n < 4 gives, or   *)
(* constant data) the float64 result is NaN or an infinity.                *)
(***************************************************************************)
RECURSIVE RowPairTo(_, _, _)
\* sum over j <= k of (w_ij + w_ji).
RowPairTo(w, i, k) ==
    IF k = 0 THEN 0 ELSE RowPairTo(w, i, k - 1) + w.a[i][k] + w.a[k][i]

RECURSIVE RowPairSqTo(_, _, _)
\* sum over j <= k of (w_ij + w_ji)^2.
RowPairSqTo(w, i, k) ==
    IF k = 0 THEN 0
    ELSE RowPairSqTo(w, i, k - 1) + (w.a[i][k] + w.a[k][i]) * (w.a[i][k] + w.a[k][i])

RECURSIVE PairSqTo(_, _)
\* sum over i <= k and all j of (w_ij + w_ji)^2, which is 2*s1.
PairSqTo(w, k) ==
    IF k = 0 THEN 0 ELSE PairSqTo(w, k - 1) + RowPairSqTo(w, k, w.c)

RECURSIVE S2To(_, _)
\* sum over i <= k of (sum_j (w_ij + w_ji))^2.
S2To(w, k) ==
    IF k = 0 THEN 0 ELSE S2To(w, k - 1) + RowPairTo(w, k, w.c) * RowPairTo(w, k, w.c)

RECURSIVE DevSqTo(_, _, _)
\* sum over i <= k of (n*x_i - S)^2, which is n^2 * var2 for k = n.
DevSqTo(x, sum, k) ==
    IF k = 0 THEN 0
    ELSE DevSqTo(x, sum, k - 1) + (Len(x) * x[k] - sum) * (Len(x) * x[k] - sum)

RECURSIVE DevQuadTo(_, _, _)
\* sum over i <= k of (n*x_i - S)^4, which is n^4 * var4 for k = n.
DevQuadTo(x, sum, k) ==
    IF k = 0 THEN 0
    ELSE LET u == (Len(x) * x[k] - sum) * (Len(x) * x[k] - sum)
         IN  DevQuadTo(x, sum, k - 1) + u * u

\* The divisor c of the formula and the sum n^2 * var2.
VarC(x, w) ==
    (Len(x) - 1) * (Len(x) - 2) * (Len(x) - 3) * SumRows(w, w.r) * SumRows(w, w.r)

VarU2(x) == DevSqTo(x, SumTo(x, Len(x)), Len(x))

\* The formula of the claim, for n >= 4, c # 0 and data that is not
\* constant; a and the second factor of b are taken twice, as integers.
VarOf(x, w) ==
    LET n  == Len(x)
        s0 == SumRows(w, w.r)
        t1 == PairSqTo(w, w.r)
        s2 == S2To(w, w.r)
        a2 == n * ((n * n - 3 * n + 3) * t1 - 2 * n * s2 + 6 * s0 * s0)
        b2 == (n * n - n) * t1 - 4 * n * s2 + 12 * s0 * s0
        d  == Rat(DevQuadTo(x, SumTo(x, n), n), VarU2(x) * VarU2(x))
        ab == FSub(Rat(a2, 2), FMul(d, Rat(b2, 2)))
    IN  FSub(FDiv(ab, Float(VarC(x, w))), Rat(1, (n - 1) * (n - 1)))

\* v is what the formula gives for x and w.
VarAgrees(v, x, w) ==
    IF Len(x) >= VarMinN /\ VarC(x, w) # 0 /\ VarU2(x) # 0
    THEN v = VarOf(x, w)
    ELSE v.k \in {"nan", "inf"}

C11_MoranVarFormula ==
    /\ eng.kind = "Moran" =>
          /\ WellFormed(HeldLocality)
          /\ VarAgrees(MoranVar(eng, heap).ret, HeldData, HeldLocality)
    /\ (call.op = "Var" /\ eng.kind = "Moran") =>
          VarAgrees(call.ret, HeldData, HeldLocality)
    /\ (call.op = "GlobalMoransI" /\ call.err = "") =>
          VarAgrees(call.ret.v, heap.cd, heap.cm)

\* Var() returned a number on four elements and a locality that is not
\* symmetric and has self-weights.
C11_Witness ==
    /\ eng.kind = "Moran"
    /\ call.op = "Var" /\ call.ret.k = "fin"
    /\ Len(HeldData) = VarMinN
    /\ HeldLocality = Pattern(VarMinN, VarMinN, "skew")
    /\ call.ret = VarOf(HeldData, HeldLocality)

\* Var() returned 5383/43740 on the example, which with I = 1/9 and
\* E = -1/9 is the example's z-score of 0.6335.
C11_WitnessExample ==
    /\ eng.kind = "Moran"
    /\ call.op = "Var" /\ call.ret = Rat(5383, 43740)
    /\ HeldData = ExampleData
    /\ HeldLocality = Pattern(ExampleN, ExampleN, "path")

(***************************************************************************)
(* C12.  Getis-Ord G*: on an engine that holds n >= 2 elements, for every  *)
(* index 0 <= i < n, Gstar(i) is                                           *)
(*   (dot(w_i, x) - ws) / (s * sqrt((n*dot(w_i, w_i) - ws^2)/(n - 1)))     *)
(* with w_i row i of the held locality, ws = mean * sum(w_i), and mean and *)
(* s = (1/n)*sum(x^2) - mean^2 the moments of the held data x: a function  *)
(* of row i, the held data and n, computed without writing to the row.     *)
(***************************************************************************)
\* The formula from the row r and the data x, n = Len(x) >= 2, as fractions
\* of integers: with S = sum(x), ws = S*sum(r)/n.
GstarOf(x, r) ==
    LET n   == Len(x)
        sum == SumTo(x, n)
        sr  == SumTo(r, n)
        num == Rat(n * DotTo(r, x, n) - sum * sr, n)
        rad == Rat(n * n * n * DotTo(r, r, n) - sum * sum * sr * sr, n * n * (n - 1))
    IN  SymDiv(num, SymMul(SOf(x), FSqrt(rad)))

C12_GstarFormula ==
    /\ (eng.kind = "GetisOrd" /\ Len(HeldData) >= 2) =>
          \A i \in 0..(Len(HeldData) - 1) :
              /\ Gstar(eng, heap, i).ret = GstarOf(HeldData, HeldLocality.a[i + 1])
              /\ Gstar(eng, heap, i).heap = heap
    /\ (call.op = "Gstar" /\ Len(HeldData) >= 2) =>
          call.ret = GstarOf(HeldData, HeldLocality.a[call.idx + 1])

\* Gstar(4) returned (6/5) / ((6/25) * sqrt(484/225)) on the example data
\* and the path graph.
C12_Witness ==
    /\ eng.kind = "GetisOrd"
    /\ call.op = "Gstar" /\ call.idx = 4
    /\ HeldData = ExampleData
    /\ HeldLocality = Pattern(ExampleN, ExampleN, "path")
    /\ call.ret = SymDiv(Rat(6, 5), SymMul(Rat(6, 25), FSqrt(Rat(484, 225))))

\* Gstar(1) returned on a locality whose row 1 and column 1 differ.
C12_WitnessSkew ==
    /\ eng.kind = "GetisOrd"
    /\ call.op = "Gstar" /\ call.idx = 1
    /\ HeldData = SubSeq(ExampleData, 1, VarMinN)
    /\ HeldLocality = Pattern(VarMinN, VarMinN, "skew")
    /\ call.ret = GstarOf(HeldData, <<0, 1, 2, 0>>)

==========================================================================
